---- MODULE Spec2Model ----
(***************************************************************************)
(* A model of semseg.pytorch's PASCAL VOC dataset adapter                  *)
(* (pysemseg/datasets/pascal_voc/pascal.py) and of its tensorboard logger  *)
(* (loggers/tensorboard_logger.py).                                        *)
(*                                                                         *)
(* Text is modelled by what the code does with it: a line of an id file    *)
(* and an image id are sequences of characters, a path is a sequence of    *)
(* path tokens and characters built by concatenation, a tensorboard tag is *)
(* a string built by concatenation.                                        *)
(***************************************************************************)
EXTENDS Integers, Sequences, FiniteSets, TLC

VARIABLES
    \* ---- PascalVOCSegmentation
    pc,                   \* position of the constructor / state of the object
    split,                \* the constructor's split argument (self.split)
    opened,               \* id files open() was called on, in call order
    absent,               \* id files open() did not find
    benchmark_train_ids,
    benchmark_val_ids,
    voc2012_train_ids,
    voc2012_val_ids,
    train_image_data,     \* self.train_image_data
    val_image_data,       \* self.val_image_data
    train_ids,            \* self.train_ids
    val_ids,              \* self.val_ids
    image_data,           \* self.image_data
    disk,                 \* paths os.path.exists() answered True for
    probed,               \* paths os.path.exists() was asked about
    result,               \* outcome of the last __getitem__ / __len__ call
    \* ---- PascalVOCTransform
    mode,                 \* self.mode
    tpc,                  \* position inside __call__
    image,                \* the image value travelling through __call__
    target,               \* the label value travelling through __call__
    applied,              \* every transform applied so far, in order
    \* ---- TensorboardLogger
    lpc,                  \* "idle" before the log_metrics call, "logged" after
    call,                 \* the arguments of the log_metrics call
    scalars               \* the add_scalar calls received by the SummaryWriter

dsVars == <<pc, split, opened, absent, benchmark_train_ids, benchmark_val_ids,
            voc2012_train_ids, voc2012_val_ids, train_image_data,
            val_image_data, train_ids, val_ids, image_data, disk, probed,
            result>>
trVars == <<mode, tpc, image, target, applied>>
lgVars == <<lpc, call, scalars>>
vars == <<dsVars, trVars, lgVars>>

\* Python's None where a path is expected: no path is the empty sequence.
None == <<>>

(***************************************************************************)
(* Bounds                                                                  *)
(***************************************************************************)
\* lines in one id file
MaxLines == 2
\* entries (keys, at any depth) in one metrics mapping
MaxEntries == 3

(***************************************************************************)
(* Text helpers                                                            *)
(***************************************************************************)
Whitespace == {" ", "\n", "\t"}

RECURSIVE lstrip(_)
lstrip(s) ==
    IF s # <<>> /\ Head(s) \in Whitespace THEN lstrip(Tail(s)) ELSE s

RECURSIVE rstrip(_)
rstrip(s) ==
    IF s # <<>> /\ s[Len(s)] \in Whitespace
    THEN rstrip(SubSeq(s, 1, Len(s) - 1))
    ELSE s

\* str.strip()
strip(s) == rstrip(lstrip(s))

\* os.path.join(a, b) for one relative or absolute component b
path_join(a, b) ==
    IF b # <<>> /\ Head(b) = "/" THEN b
    ELSE IF a = <<>> \/ a[Len(a)] = "/" THEN a \o b
    ELSE a \o <<"/">> \o b

\* The sequences enumerating a finite set once each: the orders in which a
\* Python set of strings may be iterated (the order follows the string hashes,
\* which differ from process to process).
Orders(S) ==
    {o \in [1..Cardinality(S) -> S] :
        \A i, j \in 1..Cardinality(S) : o[i] = o[j] => i = j}

(***************************************************************************)
(* The environment: the dataset root                                      *)
(***************************************************************************)
root == <<"root">>

\* The lines an id file may hold.
RawLines ==
    { <<"x", "\n">>, <<" ", "x", "\n">>, <<"y", "\n">>, <<"y", " ", "\n">> }

\* The contents an id file may have: up to MaxLines lines.
FileContents == UNION {[1..n -> RawLines] : n \in 0..MaxLines}

Splits == {"train", "val", "test", "trainval"}

BenchmarkTrainFile == path_join(root, <<"benchmark_RELEASE/dataset/train.txt">>)
BenchmarkValFile == path_join(root, <<"benchmark_RELEASE/dataset/val.txt">>)
Voc2012TrainFile ==
    path_join(root, <<"VOCdevkit/VOC2012/ImageSets/Segmentation/train.txt">>)
Voc2012ValFile ==
    path_join(root, <<"VOCdevkit/VOC2012/ImageSets/Segmentation/val.txt">>)

\* The id files in the order __init__ reads them.
IdFiles ==
    <<BenchmarkTrainFile, BenchmarkValFile, Voc2012TrainFile, Voc2012ValFile>>

Voc2012ImageDir == path_join(root, <<"VOCdevkit/VOC2012/JPEGImages">>)
Voc2012LabelDir ==
    path_join(root, <<"VOCdevkit/VOC2012/SegmentationClassLabels">>)
BenchmarkImageDir == path_join(root, <<"benchmark_RELEASE/dataset/img">>)
BenchmarkLabelDir == path_join(root, <<"benchmark_RELEASE/dataset/cls_labels">>)

(***************************************************************************)
(* pascal.py: module-level functions                                       *)
(***************************************************************************)
\* _read_image_ids on a file that exists and holds `content`
_read_image_ids(content) == [i \in 1..Len(content) |-> strip(content[i])]

\* set(list)
ToSet(s) == {s[i] : i \in 1..Len(s)}

img_path(image_dir, image_id) == path_join(image_dir, image_id \o <<".jpg">>)
mask_path(ground_truth_dir, image_id) ==
    path_join(ground_truth_dir, image_id \o <<".png">>)

\* Mutant of ParseOne: the entry is appended without asking whether the image
\* exists.
ParseOne_NoImageCheck(image_dir, ground_truth_dir, image_id, exists) ==
    << [id |-> image_id,
        image_filepath |-> path_join(image_dir, image_id \o <<".jpg">>),
        gt_filepath |->
            IF path_join(ground_truth_dir, image_id \o <<".png">>) \in exists
            THEN path_join(ground_truth_dir, image_id \o <<".png">>)
            ELSE None] >>

\* Mutant of ParseOne: an id without a label file is dropped like an id without
\* an image file.
ParseOne_DropUnlabelled(image_dir, ground_truth_dir, image_id, exists) ==
    IF /\ path_join(image_dir, image_id \o <<".jpg">>) \in exists
       /\ path_join(ground_truth_dir, image_id \o <<".png">>) \in exists
    THEN << [id |-> image_id,
             image_filepath |-> path_join(image_dir, image_id \o <<".jpg">>),
             gt_filepath |->
                 path_join(ground_truth_dir, image_id \o <<".png">>)] >>
    ELSE <<>>

\* One iteration of _parse_image_paths' loop: the entries appended for image_id
\* when os.path.exists answers True exactly on the paths of `exists`.
ParseOne(image_dir, ground_truth_dir, image_id, exists) ==
    IF img_path(image_dir, image_id) \in exists
    THEN << [id |-> image_id,
             image_filepath |-> img_path(image_dir, image_id),
             gt_filepath |->
                 IF mask_path(ground_truth_dir, image_id) \in exists
                 THEN mask_path(ground_truth_dir, image_id)
                 ELSE None] >>
    ELSE <<>>

\* _parse_image_paths over image_ids iterated in the order of the sequence.
RECURSIVE _parse_image_paths(_, _, _, _)
_parse_image_paths(image_dir, ground_truth_dir, image_ids, exists) ==
    IF image_ids = <<>> THEN <<>>
    ELSE ParseOne(image_dir, ground_truth_dir, Head(image_ids), exists)
         \o _parse_image_paths(image_dir, ground_truth_dir, Tail(image_ids),
                               exists)

\* The paths _parse_image_paths asks os.path.exists about: every image path, and
\* the mask path of every id whose image exists.
Probes(image_dir, ground_truth_dir, ids, exists) ==
    {img_path(image_dir, i) : i \in ids}
    \cup {mask_path(ground_truth_dir, i) :
            i \in {j \in ids : img_path(image_dir, j) \in exists}}

\* Every path _parse_image_paths can ask about for these ids.
PathsOf(image_dir, ground_truth_dir, ids) ==
    {img_path(image_dir, i) : i \in ids}
    \cup {mask_path(ground_truth_dir, i) : i \in ids}

\* os.path.exists answers the same for a path it was asked about before.
Consistent(exists, asked) == exists \cap asked \cap probed = disk \cap asked

\* transforms.CV2ImageLoader.__call__: decodes the file at `path`; a path of
\* None is an explicit error of the loader.
CV2ImageLoader(grayscale, path) ==
    IF path = None
    THEN [kind |-> "raise", error |-> "load", path |-> path]
    ELSE [kind |-> "image", grayscale |-> grayscale, path |-> path]

(***************************************************************************)
(* PascalVOCSegmentation                                                   *)
(***************************************************************************)
NoResult == [kind |-> "none"]

DsInit ==
    /\ pc = "new"
    /\ split \in Splits
    /\ opened = <<>>
    /\ absent = {}
    /\ benchmark_train_ids = {}
    /\ benchmark_val_ids = {}
    /\ voc2012_train_ids = {}
    /\ voc2012_val_ids = {}
    /\ train_image_data = <<>>
    /\ val_image_data = <<>>
    /\ train_ids = {}
    /\ val_ids = {}
    /\ image_data = <<>>
    /\ disk = {}
    /\ probed = {}
    /\ result = NoResult

DsIdle ==
    /\ pc = "unused"
    /\ split = "train"
    /\ opened = <<>>
    /\ absent = {}
    /\ benchmark_train_ids = {}
    /\ benchmark_val_ids = {}
    /\ voc2012_train_ids = {}
    /\ voc2012_val_ids = {}
    /\ train_image_data = <<>>
    /\ val_image_data = <<>>
    /\ train_ids = {}
    /\ val_ids = {}
    /\ image_data = <<>>
    /\ disk = {}
    /\ probed = {}
    /\ result = NoResult

\* Mutant of ValidSplit: the assertion lets every split name through.
ValidSplit_Any(s) == TRUE

\* __init__, line 59: assert split in ['train', 'test', 'val']
ValidSplit(s) == s \in {"train", "test", "val"}

CheckSplit ==
    /\ pc = "new"
    /\ pc' = IF ValidSplit(split) THEN "read" ELSE "AssertionError"
    /\ UNCHANGED <<split, opened, absent, benchmark_train_ids,
                   benchmark_val_ids, voc2012_train_ids, voc2012_val_ids,
                   train_image_data, val_image_data, train_ids, val_ids,
                   image_data, disk, probed, result>>

\* The id sets after the k-th id file was read as the set `ids`.
StoreIds(k, ids) ==
    /\ benchmark_train_ids' = IF k = 1 THEN ids ELSE benchmark_train_ids
    /\ benchmark_val_ids' = IF k = 2 THEN ids ELSE benchmark_val_ids
    /\ voc2012_train_ids' = IF k = 3 THEN ids ELSE voc2012_train_ids
    /\ voc2012_val_ids' = IF k = 4 THEN ids ELSE voc2012_val_ids

\* __init__, lines 65-91: the next id file is opened and read into a set. A
\* file that does not exist makes open() raise, which ends the construction.
ReadImageIds ==
    /\ pc = "read"
    /\ LET k == Len(opened) + 1 IN
        /\ opened' = Append(opened, IdFiles[k])
        /\ \/ /\ absent' = absent \cup {IdFiles[k]}
              /\ pc' = "IOError"
              /\ UNCHANGED <<benchmark_train_ids, benchmark_val_ids,
                             voc2012_train_ids, voc2012_val_ids>>
           \/ \E content \in FileContents :
                /\ StoreIds(k, ToSet(_read_image_ids(content)))
                /\ pc' = IF k = Len(IdFiles) THEN "parse_train" ELSE "read"
                /\ UNCHANGED absent
    /\ UNCHANGED <<split, train_image_data, val_image_data, train_ids, val_ids,
                   image_data, disk, probed, result>>

\* Mutant of TrainImageData: the benchmark ids are resolved against the
\* official directories too.
TrainImageData_OneDirectory(official_order, benchmark_order, exists) ==
    _parse_image_paths(Voc2012ImageDir, Voc2012LabelDir, official_order, exists)
    \o _parse_image_paths(Voc2012ImageDir, Voc2012LabelDir, benchmark_order,
                          exists)

\* __init__, lines 93-103: the official train ids are resolved against the
\* official directories, the benchmark ids against the benchmark directories.
TrainImageData(official_order, benchmark_order, exists) ==
    _parse_image_paths(Voc2012ImageDir, Voc2012LabelDir, official_order, exists)
    \o _parse_image_paths(BenchmarkImageDir, BenchmarkLabelDir,
                          benchmark_order, exists)

ParseTrain ==
    /\ pc = "parse_train"
    /\ LET benchmark_ids == benchmark_train_ids \cup benchmark_val_ids IN
       \E exists \in SUBSET (PathsOf(Voc2012ImageDir, Voc2012LabelDir,
                                     voc2012_train_ids)
                             \cup PathsOf(BenchmarkImageDir, BenchmarkLabelDir,
                                          benchmark_ids)) :
       \E official_order \in Orders(voc2012_train_ids) :
       \E benchmark_order \in Orders(benchmark_ids) :
       LET asked == Probes(Voc2012ImageDir, Voc2012LabelDir,
                           voc2012_train_ids, exists)
                    \cup Probes(BenchmarkImageDir, BenchmarkLabelDir,
                                benchmark_ids, exists)
       IN /\ Consistent(exists, asked)
          /\ train_image_data' =
                 TrainImageData(official_order, benchmark_order, exists)
          /\ disk' = disk \cup (exists \cap asked)
          /\ probed' = probed \cup asked
    /\ pc' = "parse_val"
    /\ UNCHANGED <<split, opened, absent, benchmark_train_ids,
                   benchmark_val_ids, voc2012_train_ids, voc2012_val_ids,
                   val_image_data, train_ids, val_ids, image_data, result>>

\* __init__, lines 105-107
TrainIds == voc2012_train_ids \cup benchmark_val_ids \cup benchmark_train_ids

\* Mutant of ValIds: only the official train ids are taken out.
ValIds_OfficialOnly(all_train_ids) == voc2012_val_ids \ voc2012_train_ids

\* __init__, line 109
ValIds(all_train_ids) == voc2012_val_ids \ all_train_ids

\* __init__, lines 105-115
ParseVal ==
    /\ pc = "parse_val"
    /\ train_ids' = TrainIds
    /\ val_ids' = ValIds(train_ids')
    /\ \E exists \in SUBSET PathsOf(Voc2012ImageDir, Voc2012LabelDir, val_ids') :
       \E order \in Orders(val_ids') :
       LET asked == Probes(Voc2012ImageDir, Voc2012LabelDir, val_ids', exists)
       IN /\ Consistent(exists, asked)
          /\ val_image_data' =
                 _parse_image_paths(Voc2012ImageDir, Voc2012LabelDir, order,
                                    exists)
          /\ disk' = disk \cup (exists \cap asked)
          /\ probed' = probed \cup asked
    /\ pc' = "select"
    /\ UNCHANGED <<split, opened, absent, benchmark_train_ids,
                   benchmark_val_ids, voc2012_train_ids, voc2012_val_ids,
                   train_image_data, image_data, result>>

\* Mutant of SelectableSplits: the dict literal has an entry for every split
\* the assertion accepts.
SelectableSplits_All == {"train", "val", "test"}

\* __init__, lines 117-120: the keys of the dict literal indexed by self.split
SelectableSplits == {"train", "val"}

Selected(s) == IF s = "train" THEN train_image_data ELSE val_image_data

SelectSplit ==
    /\ pc = "select"
    /\ IF split \in SelectableSplits
       THEN /\ image_data' = Selected(split)
            /\ pc' = "ready"
       ELSE /\ pc' = "KeyError"
            /\ UNCHANGED image_data
    /\ UNCHANGED <<split, opened, absent, benchmark_train_ids,
                   benchmark_val_ids, voc2012_train_ids, voc2012_val_ids,
                   train_image_data, val_image_data, train_ids, val_ids, disk,
                   probed, result>>

\* __getitem__ on a list index: Python counts a negative index from the end.
GetItemResult(index) ==
    LET n == Len(image_data)
        i == IF index < 0 THEN index + n ELSE index
    IN IF i < 0 \/ i >= n
       THEN [kind |-> "raise", error |-> "IndexError", index |-> index]
       ELSE LET item == image_data[i + 1]
                img == CV2ImageLoader(FALSE, item.image_filepath)
                gt == CV2ImageLoader(TRUE, item.gt_filepath)
            IN IF img.kind = "raise"
               THEN [kind |-> "raise", error |-> "load", index |-> index]
               ELSE IF gt.kind = "raise"
               THEN [kind |-> "raise", error |-> "load", index |-> index]
               ELSE [kind |-> "triple", index |-> index, id |-> item.id,
                     image |-> img, label |-> gt]

GetItem ==
    /\ pc = "ready"
    /\ \E index \in -1..Len(image_data) : result' = GetItemResult(index)
    /\ UNCHANGED <<pc, split, opened, absent, benchmark_train_ids,
                   benchmark_val_ids, voc2012_train_ids, voc2012_val_ids,
                   train_image_data, val_image_data, train_ids, val_ids,
                   image_data, disk, probed>>

\* Mutant of LenResult: the length of the train list, whatever the split.
LenResult_TrainList == [kind |-> "len", value |-> Len(train_image_data)]

\* __len__, lines 142-143
LenResult == [kind |-> "len", value |-> Len(image_data)]

LenCall ==
    /\ pc = "ready"
    /\ result' = LenResult
    /\ UNCHANGED <<pc, split, opened, absent, benchmark_train_ids,
                   benchmark_val_ids, voc2012_train_ids, voc2012_val_ids,
                   train_image_data, val_image_data, train_ids, val_ids,
                   image_data, disk, probed>>

(***************************************************************************)
(* PascalVOCTransform                                                      *)
(*                                                                         *)
(* A transform is a record of its class name and constructor arguments.    *)
(* The image and the label are carried as the history of what was done to  *)
(* them: the raw input followed by one record per transform applied, with  *)
(* the random draw the transform made.  Fractions are written in           *)
(* hundredths (0.05 is 5), brightness in 255ths, means and deviations in   *)
(* thousandths.                                                            *)
(***************************************************************************)
Transform(name, params) == [name |-> name, params |-> params]

\* __init__, lines 150-152
image_loader == << Transform("ToFloatImage", <<>>) >>

\* __init__, lines 154-159
image_augmentations ==
    << Transform("RandomHueSaturation", <<5, 70, 130>>),
       Transform("RandomContrast", <<80, 120>>),
       Transform("RandomBrightness", <<-32, 32>>) >>

\* __init__, lines 161-169; Concat holds the image's PadTo and the label's
joint_augmentations ==
    << Transform("RandomCrop", <<>>),
       Transform("ScaleTo", <<513, 513>>),
       Transform("Concat", << <<513, 513, 0>>, <<513, 513, 255>> >>),
       Transform("RandomHorizontalFlip", <<>>) >>

\* __init__, lines 171-176
tensor_transforms ==
    << Transform("ToTensor", <<>>),
       Transform("Normalize", << <<485, 456, 406>>, <<229, 224, 225>> >>) >>

\* __call__, line 184
category_transform == << Transform("ToCategoryTensor", <<>>) >>

\* The random draws a transform can make in one application.
Draws(t) ==
    CASE t.name = "RandomCrop" -> { <<0>>, <<1>> }
      [] t.name = "RandomHorizontalFlip" -> { <<0>>, <<1>> }
      [] t.name = "RandomHueSaturation" ->
            { <<h, s>> : h \in {-t.params[1], t.params[1]},
                         s \in {t.params[2], t.params[3]} }
      [] t.name = "RandomContrast" -> { <<t.params[1]>>, <<t.params[2]>> }
      [] t.name = "RandomBrightness" -> { <<t.params[1]>>, <<t.params[2]>> }
      [] OTHER -> { <<>> }

Done(name, params, draw) == [name |-> name, params |-> params, draw |-> draw]

\* A transform applied to one value.
ApplyOne(t, draw, value) == Append(value, Done(t.name, t.params, draw))

\* A transform applied to the pair (image, label). Concat applies its first
\* member to the image and its second to the label; every other transform
\* does the same thing, with the same draw, to both.
ApplyJoint(t, draw, pair) ==
    IF t.name = "Concat"
    THEN << Append(pair[1], Done("PadTo", t.params[1], draw)),
            Append(pair[2], Done("PadTo", t.params[2], draw)) >>
    ELSE << ApplyOne(t, draw, pair[1]), ApplyOne(t, draw, pair[2]) >>

RawInputs == { <<3, 4>>, <<600, 400>> }

Raw(size) == << Done("raw", size, <<>>) >>

Modes == {"train", "eval", "test"}

\* Mutant of NextPhase: the augmentations run whatever the mode.
NextPhase_IgnoresMode(phase) ==
    CASE phase = "image_loader" -> "joint_augmentations"
      [] phase = "joint_augmentations" -> "image_augmentations"
      [] phase = "image_augmentations" -> "tensor_transforms"
      [] phase = "tensor_transforms" -> "ToCategoryTensor"
      [] OTHER -> "return"

\* __call__, lines 179-184: the pipeline that runs after `phase`.
NextPhase(phase) ==
    CASE phase = "image_loader" ->
            IF mode = "train" THEN "joint_augmentations" ELSE "tensor_transforms"
      [] phase = "joint_augmentations" -> "image_augmentations"
      [] phase = "image_augmentations" -> "tensor_transforms"
      [] phase = "tensor_transforms" -> "ToCategoryTensor"
      [] OTHER -> "return"

\* Compose.__call__: the members run in list order; after the last one the
\* call moves on to the next pipeline.
Advance(pipeline) ==
    IF tpc.i < Len(pipeline)
    THEN [phase |-> tpc.phase, i |-> tpc.i + 1]
    ELSE [phase |-> NextPhase(tpc.phase), i |-> 1]

TrInit ==
    /\ mode \in Modes
    /\ tpc = [phase |-> "image_loader", i |-> 1]
    /\ \E size \in RawInputs : image = Raw(size) /\ target = Raw(size)
    /\ applied = <<>>

\* __call__, line 179
ImageLoaderStep ==
    /\ tpc.phase = "image_loader"
    /\ LET t == image_loader[tpc.i] IN
       \E draw \in Draws(t) :
          /\ image' = ApplyOne(t, draw, image)
          /\ applied' = Append(applied, t.name)
    /\ tpc' = Advance(image_loader)
    /\ UNCHANGED <<mode, target>>

\* __call__, line 181
JointStep ==
    /\ tpc.phase = "joint_augmentations"
    /\ LET t == joint_augmentations[tpc.i] IN
       \E draw \in Draws(t) :
          /\ image' = ApplyJoint(t, draw, <<image, target>>)[1]
          /\ target' = ApplyJoint(t, draw, <<image, target>>)[2]
          /\ applied' = Append(applied, t.name)
    /\ tpc' = Advance(joint_augmentations)
    /\ UNCHANGED mode

\* __call__, line 182
ImageAugStep ==
    /\ tpc.phase = "image_augmentations"
    /\ LET t == image_augmentations[tpc.i] IN
       \E draw \in Draws(t) :
          /\ image' = ApplyOne(t, draw, image)
          /\ applied' = Append(applied, t.name)
    /\ tpc' = Advance(image_augmentations)
    /\ UNCHANGED <<mode, target>>

\* __call__, line 183
TensorStep ==
    /\ tpc.phase = "tensor_transforms"
    /\ LET t == tensor_transforms[tpc.i] IN
       \E draw \in Draws(t) :
          /\ image' = ApplyOne(t, draw, image)
          /\ applied' = Append(applied, t.name)
    /\ tpc' = Advance(tensor_transforms)
    /\ UNCHANGED <<mode, target>>

\* __call__, line 184
CategoryStep ==
    /\ tpc.phase = "ToCategoryTensor"
    /\ LET t == category_transform[tpc.i] IN
       \E draw \in Draws(t) :
          /\ target' = ApplyOne(t, draw, target)
          /\ applied' = Append(applied, t.name)
    /\ tpc' = Advance(category_transform)
    /\ UNCHANGED <<mode, image>>

TrIdle ==
    /\ mode = "eval"
    /\ tpc = [phase |-> "unused", i |-> 1]
    /\ image = <<>>
    /\ target = <<>>
    /\ applied = <<>>

(***************************************************************************)
(* TensorboardLogger.log_metrics                                           *)
(*                                                                         *)
(* A metrics mapping is a function from key names to nodes; a node is      *)
(* [leaf |-> a scalar] or [dict |-> a nested mapping].                     *)
(***************************************************************************)
KeyNames == {"a", "b", "a.b"}
Scalars == {1, 2}
Prefixes == {"train", "val"}
Iterations == {0, 7}

IsLeaf(node) == "leaf" \in DOMAIN node

RECURSIVE SumOver(_, _)
SumOver(f, S) ==
    IF S = {} THEN 0
    ELSE LET k == CHOOSE x \in S : TRUE IN f[k] + SumOver(f, S \ {k})

\* keys of a mapping, counted at every depth
RECURSIVE Entries(_)
Entries(m) ==
    SumOver([k \in DOMAIN m |->
                IF IsLeaf(m[k]) THEN 1 ELSE 1 + Entries(m[k].dict)],
            DOMAIN m)

\* leaves of a mapping, counted at every depth
RECURSIVE Leaves(_)
Leaves(m) ==
    SumOver([k \in DOMAIN m |->
                IF IsLeaf(m[k]) THEN 1 ELSE Leaves(m[k].dict)],
            DOMAIN m)

\* the metrics mappings of at most n entries
RECURSIVE Mappings(_)
Mappings(n) ==
    { <<>> } \cup
    UNION { { m \in [S -> {[leaf |-> v] : v \in Scalars}
                          \cup {[dict |-> d] :
                                  d \in Mappings(n - Cardinality(S))}] :
                Entries(m) <= n } :
            S \in {T \in SUBSET KeyNames : T # {} /\ Cardinality(T) <= n} }

\* utils.flatten_dict: the (dotted key, value) pair of every leaf
RECURSIVE FlatPairs(_)
FlatPairs(m) ==
    UNION { IF IsLeaf(m[k])
            THEN { <<k, m[k].leaf>> }
            ELSE { <<k \o "." \o p[1], p[2]>> : p \in FlatPairs(m[k].dict) } :
            k \in DOMAIN m }

\* utils.flatten_dict returns a dict: one value per dotted key. Where two
\* leaves have the same dotted key the dict holds the value of the one
\* flattened last, either of them here.
flatten_dict(m) ==
    { f \in [{p[1] : p \in FlatPairs(m)} -> Scalars] :
        \A k \in DOMAIN f : <<k, f[k]>> \in FlatPairs(m) }

\* Mutant of Tag: the prefix is left out.
Tag_KeyOnly(prefix, key) == key

\* "{}/{}".format(prefix, key)
Tag(prefix, key) == prefix \o "/" \o key

\* SummaryWriter.add_scalar(tag, scalar_value, global_step), as received
AddScalar(tag, value, iteration) ==
    [tag |-> tag, scalar_value |-> value, global_step |-> iteration]

\* log_metrics, lines 13-15: one add_scalar per item of the flattened dict,
\* in the dict's item order.
LogMetricsWrites(iteration, flat, items, prefix) ==
    [i \in 1..Len(items) |->
        AddScalar(Tag(prefix, items[i]), flat[items[i]], iteration)]

\* What the SummaryWriter may have received before the call.
Earlier == { <<>>, << AddScalar("val/loss", 2, 0) >> }

LgInit ==
    /\ lpc = "idle"
    /\ call = <<>>
    /\ scalars \in Earlier

LogMetrics ==
    /\ lpc = "idle"
    /\ \E iteration \in Iterations, metrics \in Mappings(MaxEntries),
          prefix \in Prefixes :
       \E flat \in flatten_dict(metrics) :
       \E items \in Orders(DOMAIN flat) :
          /\ scalars' =
                 scalars \o LogMetricsWrites(iteration, flat, items, prefix)
          /\ call' = [iteration |-> iteration, metrics |-> metrics,
                      prefix |-> prefix, before |-> scalars]
    /\ lpc' = "logged"

LgIdle ==
    /\ lpc = "unused"
    /\ call = <<>>
    /\ scalars = <<>>

Init == DsInit /\ TrIdle /\ LgIdle

Next ==
    \/ CheckSplit /\ UNCHANGED <<trVars, lgVars>>
    \/ ReadImageIds /\ UNCHANGED <<trVars, lgVars>>
    \/ ParseTrain /\ UNCHANGED <<trVars, lgVars>>
    \/ ParseVal /\ UNCHANGED <<trVars, lgVars>>
    \/ SelectSplit /\ UNCHANGED <<trVars, lgVars>>
    \/ GetItem /\ UNCHANGED <<trVars, lgVars>>
    \/ LenCall /\ UNCHANGED <<trVars, lgVars>>

Spec == Init /\ [][Next]_vars

TransformInit == DsIdle /\ TrInit /\ LgIdle

TransformNext ==
    \/ ImageLoaderStep /\ UNCHANGED <<dsVars, lgVars>>
    \/ JointStep /\ UNCHANGED <<dsVars, lgVars>>
    \/ ImageAugStep /\ UNCHANGED <<dsVars, lgVars>>
    \/ TensorStep /\ UNCHANGED <<dsVars, lgVars>>
    \/ CategoryStep /\ UNCHANGED <<dsVars, lgVars>>

TransformSpec == TransformInit /\ [][TransformNext]_vars

LoggerInit == DsIdle /\ TrIdle /\ LgInit

LoggerNext == LogMetrics /\ UNCHANGED <<dsVars, trVars>>

LoggerSpec == LoggerInit /\ [][LoggerNext]_vars

(***************************************************************************)
(* Properties of PascalVOCSegmentation (checked under Spec)                *)
(***************************************************************************)
\* the ids of the entries of a sample list
IdsOf(data) == {data[i].id : i \in 1..Len(data)}

\* the entries of a sample list with this id and this image path
Indexes(data, image_id, path) ==
    {i \in 1..Len(data) :
        data[i].id = image_id /\ data[i].image_filepath = path}

\* the label reference an entry must carry, given what is on disk
ExpectedLabel(ground_truth_dir, image_id) ==
    IF mask_path(ground_truth_dir, image_id) \in disk
    THEN mask_path(ground_truth_dir, image_id)
    ELSE None

Constructed == pc = "ready"

\* C1: after construction with split='val', no sample of the indexed
\* collection has an id of the official-train, benchmark-train or
\* benchmark-val id set.
C1_NoTrainValLeak ==
    (Constructed /\ split = "val") =>
        IdsOf(image_data) \cap (voc2012_train_ids \cup benchmark_train_ids
                                \cup benchmark_val_ids) = {}

\* a validation collection with a sample, built while an official-val id was
\* also a training id
C1_Witness ==
    /\ Constructed /\ split = "val"
    /\ image_data # <<>>
    /\ voc2012_val_ids \cap benchmark_val_ids # {}
    /\ voc2012_val_ids \cap voc2012_train_ids # {}

\* C2: every sample of the constructed collection has the image path
\* {id}.jpg under its base directory, a path that existed on disk; a candidate
\* id whose image does not exist never appears, and its absence raises no
\* error (the only I/O error of the constructor is a missing id file, raised
\* before any image is looked for).
C2_ImagesExist ==
    /\ Constructed =>
        \A i \in 1..Len(image_data) :
            /\ image_data[i].image_filepath \in disk
            /\ image_data[i].image_filepath \in
                 { img_path(Voc2012ImageDir, image_data[i].id),
                   img_path(BenchmarkImageDir, image_data[i].id) }
            /\ split = "val" =>
                 image_data[i].image_filepath =
                     img_path(Voc2012ImageDir, image_data[i].id)
    /\ Constructed =>
        \A path \in probed \ disk :
            \A i \in 1..Len(image_data) : image_data[i].image_filepath # path
    /\ pc = "IOError" => absent # {} /\ probed = {}
    /\ pc \in {"new", "read", "parse_train", "parse_val", "select", "ready",
               "IOError", "AssertionError", "KeyError"}

\* a collection with a sample, built while the image of another candidate id
\* was missing
C2_Witness ==
    /\ Constructed
    /\ image_data # <<>>
    /\ \E image_id \in (IF split = "val" THEN val_ids ELSE voc2012_train_ids) :
          /\ img_path(Voc2012ImageDir, image_id) \in probed
          /\ img_path(Voc2012ImageDir, image_id) \notin disk

\* C3 (as claimed): in the constructed collection no two entries carry the
\* same id.
C3_UniqueIds ==
    Constructed =>
        \A i, j \in 1..Len(image_data) :
            image_data[i].id = image_data[j].id => i = j

\* C4 (as claimed): split='val' on a root without the benchmark id files
\* constructs a collection of |official_val_ids| - |official_train_ids|
\* samples.
C4_OfficialOnlyCount ==
    (split = "val" /\ BenchmarkTrainFile \in absent) =>
        /\ Constructed
        /\ Len(image_data) =
             Cardinality(voc2012_val_ids) - Cardinality(voc2012_train_ids)

\* C4 (amended): split='val' on a root without the benchmark train id file
\* fails with the I/O error of that file before any other file is opened and
\* yields no collection; when the four id files exist and both benchmark
\* lists are empty, len() is the number of ids of official-val minus
\* official-train (set difference) whose official image exists.
C4_ValCount ==
    /\ (split = "val" /\ BenchmarkTrainFile \in absent) =>
          /\ pc = "IOError"
          /\ opened = <<BenchmarkTrainFile>>
          /\ image_data = <<>>
          /\ result = NoResult
    /\ (Constructed /\ split = "val" /\ benchmark_train_ids = {}
        /\ benchmark_val_ids = {}) =>
          /\ absent = {}
          /\ result.kind = "len" =>
               result.value =
                 Cardinality({image_id \in voc2012_val_ids \ voc2012_train_ids :
                                img_path(Voc2012ImageDir, image_id) \in disk})

\* len() of a validation collection built from empty benchmark lists, with a
\* sample in it, where the count differs from |official_val| - |official_train|
C4_Witness ==
    /\ Constructed /\ split = "val"
    /\ benchmark_train_ids = {} /\ benchmark_val_ids = {}
    /\ result.kind = "len" /\ result.value >= 1
    /\ result.value #
         Cardinality(voc2012_val_ids) - Cardinality(voc2012_train_ids)

\* C5: the train collection holds exactly one entry resolved against the
\* official directories for each official-train id whose official image
\* exists, one entry resolved against the benchmark directories for each id of
\* benchmark-train or benchmark-val whose benchmark image exists, and nothing
\* else.
C5_TrainEntries ==
    (Constructed /\ split = "train") =>
        LET official == {image_id \in voc2012_train_ids :
                            img_path(Voc2012ImageDir, image_id) \in disk}
            benchmark == {image_id \in benchmark_train_ids \cup benchmark_val_ids :
                            img_path(BenchmarkImageDir, image_id) \in disk}
        IN /\ Len(image_data) = Cardinality(official) + Cardinality(benchmark)
           /\ \A image_id \in official :
                \E i \in 1..Len(image_data) :
                   /\ Indexes(image_data, image_id,
                              img_path(Voc2012ImageDir, image_id)) = {i}
                   /\ image_data[i].gt_filepath =
                          ExpectedLabel(Voc2012LabelDir, image_id)
           /\ \A image_id \in benchmark :
                \E i \in 1..Len(image_data) :
                   /\ Indexes(image_data, image_id,
                              img_path(BenchmarkImageDir, image_id)) = {i}
                   /\ image_data[i].gt_filepath =
                          ExpectedLabel(BenchmarkLabelDir, image_id)
           /\ IdsOf(image_data) \subseteq
                voc2012_train_ids \cup benchmark_train_ids \cup benchmark_val_ids

\* a train collection with an official and a benchmark entry of different
\* ids, built while a listed id was dropped for its missing image
C5_Witness ==
    /\ Constructed /\ split = "train"
    /\ \E i, j \in 1..Len(image_data) :
          /\ image_data[i].image_filepath =
                 img_path(Voc2012ImageDir, image_data[i].id)
          /\ image_data[j].image_filepath =
                 img_path(BenchmarkImageDir, image_data[j].id)
          /\ image_data[i].id # image_data[j].id
    /\ probed \ disk # {}

\* the entry a Python list index selects, when the index is in range
InRange(index) ==
    /\ index >= -Len(image_data)
    /\ index < Len(image_data)

ItemAt(index) ==
    image_data[(IF index < 0 THEN index + Len(image_data) ELSE index) + 1]

C7_InvalidSplitRejected ==
    split \notin {"train", "val", "test"} =>
        /\ pc \in {"new", "AssertionError"}
        /\ opened = <<>>
        /\ probed = {}
        /\ train_image_data = <<>> /\ val_image_data = <<>>
        /\ image_data = <<>>
        /\ result = NoResult

\* the assertion has rejected an invalid split name
C7_Witness == pc = "AssertionError" /\ split = "trainval"

\* the constructor has stopped, with an object or with an error
Finished == pc \in {"ready", "AssertionError", "IOError", "KeyError"}

\* C10 (as claimed): construction with split='test' reads all four id files,
\* builds the train and val lists and then fails at the split selection.
C10_TestFailsAtSelection ==
    (split = "test" /\ Finished) =>
        /\ pc = "KeyError"
        /\ opened = IdFiles

\* C10 (amended): construction with split='test' passes the assertion and
\* never yields a dataset object; when all four id files can be read, they are
\* all read and the train and val sample lists are built before construction
\* fails at the split selection; when an id file is missing, construction
\* fails earlier, with the I/O error of that file.
C10_TestNeverConstructs ==
    split = "test" =>
        /\ pc \notin {"ready", "AssertionError"}
        /\ image_data = <<>>
        /\ result = NoResult
        /\ (Finished /\ absent = {}) => pc = "KeyError"
        /\ pc = "IOError" => absent = {opened[Len(opened)]}
        /\ pc = "KeyError" =>
              /\ opened = IdFiles
              /\ absent = {}
              /\ train_ids = voc2012_train_ids \cup benchmark_train_ids
                                \cup benchmark_val_ids
              /\ val_ids = voc2012_val_ids \ train_ids
              /\ {img_path(Voc2012ImageDir, i) : i \in voc2012_train_ids \cup val_ids}
                    \subseteq probed
              /\ {img_path(BenchmarkImageDir, i) :
                     i \in benchmark_train_ids \cup benchmark_val_ids}
                    \subseteq probed
              /\ IdsOf(train_image_data) =
                    {i \in voc2012_train_ids :
                        img_path(Voc2012ImageDir, i) \in disk}
                    \cup {i \in benchmark_train_ids \cup benchmark_val_ids :
                            img_path(BenchmarkImageDir, i) \in disk}
              /\ IdsOf(val_image_data) =
                    {i \in val_ids : img_path(Voc2012ImageDir, i) \in disk}

\* construction with split='test' failed at the split selection after both
\* sample lists were built with samples in them
C10_Witness ==
    /\ split = "test" /\ pc = "KeyError"
    /\ train_image_data # <<>>
    /\ val_image_data # <<>>

(***************************************************************************)
(* Properties of PascalVOCTransform (checked under TransformSpec)          *)
(***************************************************************************)
Names(history) == [i \in 1..Len(history) |-> history[i].name]

IsPrefix(s, t) == Len(s) <= Len(t) /\ s = SubSeq(t, 1, Len(s))

TrainStages ==
    << "ToFloatImage",
       "RandomCrop", "ScaleTo", "Concat", "RandomHorizontalFlip",
       "RandomHueSaturation", "RandomContrast", "RandomBrightness",
       "ToTensor", "Normalize",
       "ToCategoryTensor" >>

EvalStages == << "ToFloatImage", "ToTensor", "Normalize", "ToCategoryTensor" >>

TrainImage ==
    << "raw", "ToFloatImage", "RandomCrop", "ScaleTo", "PadTo",
       "RandomHorizontalFlip", "RandomHueSaturation", "RandomContrast",
       "RandomBrightness", "ToTensor", "Normalize" >>

TrainTarget ==
    << "raw", "RandomCrop", "ScaleTo", "PadTo", "RandomHorizontalFlip",
       "ToCategoryTensor" >>

\* the geometric operations done to a value, with their draws
Geometry(history) ==
    SelectSeq(history,
              LAMBDA d : d.name \in {"RandomCrop", "ScaleTo",
                                     "RandomHorizontalFlip"})

\* C8: a call runs its stages in the order fixed by the mode: in train mode
\* float conversion, the joint geometric augmentation of image and label
\* (crop, scale to 513x513, pad, flip; the same draws for both, the image
\* padded with 0 and the label with 255), the photometric augmentation of the
\* image only (hue/saturation, contrast, brightness), tensor conversion and
\* normalisation, then the label cast; in eval mode the joint and photometric
\* stages never run and the label reaches the cast unchanged.
C8_StageOrder ==
    /\ mode = "train" =>
          /\ IsPrefix(applied, TrainStages)
          /\ IsPrefix(Names(image), TrainImage)
          /\ IsPrefix(Names(target), TrainTarget)
          /\ tpc.phase = "return" =>
                /\ applied = TrainStages
                /\ Names(image) = TrainImage
                /\ Names(target) = TrainTarget
                /\ Geometry(image) = Geometry(target)
                /\ image[3].params = <<>> /\ image[4].params = <<513, 513>>
                /\ image[5].params = <<513, 513, 0>>
                /\ target[4].params = <<513, 513, 255>>
    /\ mode = "eval" =>
          /\ IsPrefix(applied, EvalStages)
          /\ IsPrefix(Names(image),
                      << "raw", "ToFloatImage", "ToTensor", "Normalize" >>)
          /\ IsPrefix(Names(target), << "raw", "ToCategoryTensor" >>)
          /\ tpc.phase = "ToCategoryTensor" => Names(target) = << "raw" >>
          /\ tpc.phase = "return" =>
                /\ applied = EvalStages
                /\ Names(target) = << "raw", "ToCategoryTensor" >>

\* a train-mode call has returned
C8_Witness ==
    /\ mode = "train" /\ tpc.phase = "return"
    /\ Len(applied) = Len(TrainStages)
    /\ image[6].draw = <<1>>

(***************************************************************************)
(* Properties of TensorboardLogger.log_metrics (checked under LoggerSpec)  *)
(***************************************************************************)
\* the paths (sequences of key names) from the top of a mapping to its leaves,
\* each with the leaf's value
RECURSIVE LeafPaths(_)
LeafPaths(m) ==
    UNION { IF IsLeaf(m[k])
            THEN { [path |-> <<k>>, value |-> m[k].leaf] }
            ELSE { [path |-> <<k>> \o p.path, value |-> p.value] :
                     p \in LeafPaths(m[k].dict) } :
            k \in DOMAIN m }

\* the dotted form of a path: its key names joined by "."
RECURSIVE Dotted(_)
Dotted(path) ==
    IF Len(path) = 1 THEN path[1]
    ELSE path[1] \o "." \o Dotted(Tail(path))

\* the add_scalar calls the log_metrics call added
NewScalars == SubSeq(scalars, Len(call.before) + 1, Len(scalars))

Logged == lpc = "logged"

\* C9 (as claimed): one log_metrics call performs exactly one scalar write per
\* leaf of the nested metrics mapping.
C9_OneWritePerLeaf ==
    Logged => Len(NewScalars) = Cardinality(LeafPaths(call.metrics))

\* C9 (amended): one log_metrics call performs exactly one scalar write per
\* distinct dotted path of the leaves of the metrics mapping (one per leaf
\* unless two leaves have the same dotted path, which key names containing "."
\* allow), each keyed '{prefix}/{dotted path}' with the value of a leaf of
\* that dotted path and the given iteration as step, and performs no other
\* write.
C9_OneWritePerDottedPath ==
    Logged =>
        LET leaves == LeafPaths(call.metrics)
            dotted == {Dotted(p.path) : p \in leaves}
        IN /\ IsPrefix(call.before, scalars)
           /\ Len(NewScalars) = Cardinality(dotted)
           /\ \A d \in dotted :
                \E i \in 1..Len(NewScalars) :
                   NewScalars[i].tag = call.prefix \o "/" \o d
           /\ \A i \in 1..Len(NewScalars) :
                /\ NewScalars[i].global_step = call.iteration
                /\ \E p \in leaves :
                      /\ NewScalars[i].tag =
                             call.prefix \o "/" \o Dotted(p.path)
                      /\ NewScalars[i].scalar_value = p.value
           /\ (\A p, q \in leaves : Dotted(p.path) = Dotted(q.path) => p = q)
                => Len(NewScalars) = Cardinality(leaves)

\* {"a": {"b": 1}} logged with prefix 'train' has produced the single entry
\* 'train/a.b'
C9_Witness ==
    /\ Logged
    /\ call.metrics = [a |-> [dict |-> [b |-> [leaf |-> 1]]]]
    /\ call.prefix = "train"
    /\ call.iteration = 7
    /\ NewScalars = << AddScalar("train/a.b", 1, 7) >>

====
